---- MODULE Spec2Model ----
(***************************************************************************)
(* MakerXStudio/node-cache: the ObjectCache implementations.               *)
(*                                                                         *)
(* Four classes implement ObjectCache:                                     *)
(*   S3ObjectCache          in src/src/s3ObjectCache.ts                    *)
(*   FileSystemObjectCache  in src/src/fileSystemObjectCache.ts            *)
(*   S3ObjectCache          in src/src/cache.ts   (earlier copy)           *)
(*   FileSystemObjectCache  in src/src/cache.ts   (earlier copy)           *)
(* A cache object is one of them (impl, chosen at construction).  Every    *)
(* await of the source is a step boundary: an action performs the backend  *)
(* I/O a call is suspended on and runs its continuation up to the next     *)
(* await.  A name in the bucket or directory is the sequence of its        *)
(* dot-separated segments: <<"a", "json", "gz">> is a.json.gz.             *)
(***************************************************************************)
EXTENDS Integers, Sequences, FiniteSets, TLC

\* ------------------------------------------------------------------ bounds
\* Calls the caller makes in one behaviour.
MaxOps == 2
\* The clock runs over 0..MaxTime (seconds).
MaxTime == 2
\* Frames the call stack holds before "Maximum call stack size exceeded".
MaxStack == 2

\* ------------------------------------------------------------ the classes
S3 == "s3ObjectCache.ts:S3ObjectCache"
FS == "fileSystemObjectCache.ts:FileSystemObjectCache"
S3Legacy == "cache.ts:S3ObjectCache"
FSLegacy == "cache.ts:FileSystemObjectCache"
Impls == {S3, FS, S3Legacy, FSLegacy}
IsS3(i) == i \in {S3, S3Legacy}
IsLegacy(i) == i \in {S3Legacy, FSLegacy}

\* undefined / a defined value
None == <<>>
Some(x) == <<x>>

\* ------------------------------------------------------------------ inputs
Callers == {1, 2}
KeyA == <<"a">>
KeyAJson == <<"a", "json">>
Keys == {KeyA, KeyAJson}

\* Values: [bin |-> FALSE, v |-> a JSON value] or [bin |-> TRUE, v |-> bytes]
\* (a Uint8Array, its bytes written as a string, one character per byte).
JsonValues == {"0", "{test:1}", "{test:2}"}
ByteValues == {"", "AB"}
Json(v) == [bin |-> FALSE, v |-> v]
Bytes(b) == [bin |-> TRUE, v |-> b]
Values(isBinary) == IF isBinary THEN {Bytes(b) : b \in ByteValues} ELSE {Json(v) : v \in JsonValues}
AllValues == Values(TRUE) \cup Values(FALSE)

OctetStream == "application/octet-stream"
ApplicationJson == "application/json"
ImagePng == "image/png"
MimeOptions == {None, Some(ImagePng)}
StaleOptions == {None, Some(0), Some(1)}

\* ------------------------------------------------------- pure conversions
\* JSON.stringify(data, null, 2)
JSONstringify(v) ==
    CASE v = "0" -> "0"
      [] v = "{test:1}" -> "{\n  \"test\": 1\n}"
      [] v = "{test:2}" -> "{\n  \"test\": 2\n}"

\* JSON.parse(text): the value, or None for a SyntaxError
JSONparse(text) ==
    IF \E v \in JsonValues : JSONstringify(v) = text
    THEN Some(Json(CHOOSE v \in JsonValues : JSONstringify(v) = text))
    ELSE None

\* zlib.gzipSync / zlib.gunzipSync
gzipSync(content) == <<"gzip", content>>
gunzipSync(body) == body[2]

\* what put hands to the backend: data instanceof Uint8Array ? data : JSON.stringify(data, null, 2)
Serialize(data) == IF data.bin THEN data.v ELSE JSONstringify(data.v)

\* JavaScript truthiness of a decoded value: a Buffer is an object (truthy), 0 is falsy
TruthyValue(x) == x # None /\ (x[1].bin \/ x[1].v # "0")
\* JavaScript truthiness of what fs.readFile gave: a Buffer is truthy, "" is falsy
TruthyRead(content, isBinary) == isBinary \/ content # ""

\* mime.getType(path): by the last extension; None is null
mimeGetType(name) ==
    LET ext == name[Len(name)]
    IN  IF Len(name) < 2 THEN None
        ELSE CASE ext = "json" -> Some(ApplicationJson)
               [] ext = "png" -> Some(ImagePng)
               [] ext = "bin" -> Some(OctetStream)
               [] OTHER -> None

\* mime.getExtension(type); None is null
mimeGetExtension(type) ==
    CASE type = ApplicationJson -> Some("json")
      [] type = ImagePng -> Some("png")
      [] type = OctetStream -> Some("bin")
      [] OTHER -> None

\* The texts a file can hold.  The long ones are the two JSON texts with the first
\* two bytes possibly overwritten: Text15(head, k) is head followed by the rest of
\* JSON.stringify({test: k}, null, 2).
Heads == {"{\n", "0\n", "AB", "0B"}
Text15(head, k) ==
    CASE head = "{\n" /\ k = 1 -> "{\n  \"test\": 1\n}"
      [] head = "{\n" /\ k = 2 -> "{\n  \"test\": 2\n}"
      [] head = "0\n" /\ k = 1 -> "0\n  \"test\": 1\n}"
      [] head = "0\n" /\ k = 2 -> "0\n  \"test\": 2\n}"
      [] head = "AB" /\ k = 1 -> "AB  \"test\": 1\n}"
      [] head = "AB" /\ k = 2 -> "AB  \"test\": 2\n}"
      [] head = "0B" /\ k = 1 -> "0B  \"test\": 1\n}"
      [] head = "0B" /\ k = 2 -> "0B  \"test\": 2\n}"
LongTexts == {Text15(h, k) : h \in Heads, k \in {1, 2}}
HeadOf(text) == CHOOSE h \in Heads : \E k \in {1, 2} : Text15(h, k) = text
TailOf(text) == CHOOSE k \in {1, 2} : \E h \in Heads : Text15(h, k) = text

\* the length of a text in bytes
ContentLen(text) ==
    CASE text = "" -> 0
      [] text = "0" -> 1
      [] text \in {"AB", "0B"} -> 2
      [] text \in LongTexts -> 15

\* fs.write(fd, data) at position 0 of a file holding cur: the bytes of data replace the
\* first bytes of cur, and what cur holds beyond them stays
Overwrite(cur, data) ==
    IF data = "" THEN cur
    ELSE IF ContentLen(data) >= ContentLen(cur) THEN data
    ELSE IF ContentLen(cur) = 2 THEN "0B"
    ELSE Text15(IF ContentLen(data) = 2 THEN data
                ELSE IF HeadOf(cur) \in {"{\n", "0\n"} THEN "0\n" ELSE "0B",
                TailOf(cur))

\* `${x}` of a string or null
TemplateString(x) == IF x = None THEN "null" ELSE x[1]

IsPrefix(p, s) == Len(p) <= Len(s) /\ SubSeq(s, 1, Len(p)) = p

\* ------------------------------------------------------------------- state
\* impl   the class of the cache object (fixed at construction)
\* store  the bucket or the directory: name -> object or file
\*          S3: [Body, ContentType, LastModified]   FS: [content, mtime]
\* now    the clock, in seconds
\* calls  per caller, the call in flight: its arguments, locals and position
\* tasks  the deleteFile promises clearCache started and did not await
\* ops    calls made so far
\* last   what the caller has just awaited, if it was a put or a getAndCache that fell
\*        back to the stale value: its arguments, what it returned and the entry it found
\* keys   the cache keys the caller uses
VARIABLES impl, store, now, calls, tasks, ops, last, keys
vars == <<impl, store, now, calls, tasks, ops, last, keys>>

NoOptions ==
    [staleAfterSeconds |-> None, returnStaleResultOnError |-> FALSE, isBinary |-> FALSE,
     mimeType |-> None, returnBinaryMetadata |-> FALSE]

IdleCall ==
    [op |-> "none", pc |-> "idle", key |-> <<>>, data |-> None, mimeArg |-> None,
     opts |-> NoOptions, mimeType |-> "", cachePath |-> <<>>, existingCache |-> None,
     expired |-> FALSE, existing |-> None, value |-> None,
     generatorCalls |-> 0, generatorArg |-> None, generatorOutcome |-> "none",
     outcome |-> "pending", error |-> "", result |-> None, depth |-> 0,
     pre |-> <<>>, at |-> 0, fault |-> "none"]

NewCall(op, key, pc) == [IdleCall EXCEPT !.op = op, !.key = key, !.pc = pc]

\* the promise settles: resolve(result) / reject(error)
Resolve(call, result) == [call EXCEPT !.pc = "settled", !.outcome = "resolved", !.result = result]
Reject(call, error) == [call EXCEPT !.pc = "settled", !.outcome = "rejected", !.error = error]

EmptyStore == [n \in {} |-> None]
Remove(st, name) == [n \in DOMAIN st \ {name} |-> st[n]]
Lookup(st, name) == IF name \in DOMAIN st THEN Some(st[name]) ELSE None

\* ------------------------------------------------------------ S3ObjectCache
\* put: const fileName = data instanceof Uint8Array ? `${cacheKey}.gz` : `${cacheKey}.json.gz`
S3putFileName(cacheKey, data) == cacheKey \o (IF data.bin THEN <<"gz">> ELSE <<"json", "gz">>)

\* getAndCache: const fileName = isBinary ? `${cacheKey}.gz` : `${cacheKey}.json.gz`
S3fileName(cacheKey, isBinary) == cacheKey \o (IF isBinary THEN <<"gz">> ELSE <<"json", "gz">>)

\* faulty variant: the object keeps the time of the first write of the bucket
S3putStampedZero(st, cacheKey, data, mimeType, t) ==
    (S3putFileName(cacheKey, data) :>
        [Body |-> gzipSync(Serialize(data)),
         ContentType |-> IF mimeType # None THEN mimeType[1]
                         ELSE IF data.bin THEN OctetStream ELSE ApplicationJson,
         LastModified |-> 0]) @@ st

\* put: the PutObjectCommand, applied by S3 at time t (S3 stamps LastModified)
S3put(st, cacheKey, data, mimeType, t) ==
    (S3putFileName(cacheKey, data) :>
        [Body |-> gzipSync(Serialize(data)),
         ContentType |-> IF mimeType # None THEN mimeType[1]
                         ELSE IF data.bin THEN OctetStream ELSE ApplicationJson,
         LastModified |-> t]) @@ st

\* s3ObjectCache.ts: staleAfterSeconds !== undefined && existingCache && age > staleAfterSeconds
S3expired(staleAfterSeconds, existingCache, t) ==
    /\ staleAfterSeconds # None
    /\ existingCache # None
    /\ t - existingCache[1].LastModified > staleAfterSeconds[1]

\* cache.ts: staleAfterSeconds && existingCache && age > staleAfterSeconds
S3expiredLegacy(staleAfterSeconds, existingCache, t) ==
    /\ staleAfterSeconds # None /\ staleAfterSeconds[1] # 0
    /\ existingCache # None
    /\ t - existingCache[1].LastModified > staleAfterSeconds[1]

\* if (mimeType === undefined) mimeType = existingCache?.ContentType ?? 'application/octet-stream'
S3mimeType(mT, existingCache) ==
    IF mT # None THEN mT[1]
    ELSE IF existingCache # None THEN existingCache[1].ContentType ELSE OctetStream

\* existing: gunzip and, for a structured value, JSON.parse; <<"SyntaxError">> when it throws
S3existing(existingCache, isBinary) ==
    IF existingCache = None THEN <<"ok", None>>
    ELSE IF isBinary THEN <<"ok", Some(Bytes(gunzipSync(existingCache[1].Body)))>>
    ELSE LET parsed == JSONparse(gunzipSync(existingCache[1].Body))
         IN  IF parsed = None THEN <<"SyntaxError">> ELSE <<"ok", parsed>>

\* faulty variant: the fallback taken whether or not returnStaleResultOnError is set
StaleFallbackIgnoringOption(existingCache, returnStaleResultOnError) ==
    existingCache # None

\* faulty variant: the fallback taken whether or not an entry was found
StaleFallbackWithoutEntry(existingCache, returnStaleResultOnError) ==
    returnStaleResultOnError

\* if (existingCache && returnStaleResultOnError) { warn } else { throw e }
StaleFallback(existingCache, returnStaleResultOnError) ==
    existingCache # None /\ returnStaleResultOnError

\* faulty variant: the envelope carries no extension
S3returnNoExtension(call) ==
    IF call.opts.isBinary /\ call.opts.returnBinaryMetadata
    THEN Resolve(call, Some([data |-> call.value,
                             fileExtension |-> None,
                             mimeType |-> call.mimeType]))
    ELSE Resolve(call, call.value)

\* the end of getAndCache: the envelope for getAndCacheBinary, else value!
S3return(call) ==
    IF call.opts.isBinary /\ call.opts.returnBinaryMetadata
    THEN Resolve(call, Some([data |-> call.value,
                             fileExtension |-> mimeGetExtension(call.mimeType),
                             mimeType |-> call.mimeType]))
    ELSE Resolve(call, call.value)

\* faulty variant: the fallback writes the stale value back before returning it
S3catchRewriting(call, e) ==
    IF StaleFallback(call.existingCache, call.opts.returnStaleResultOnError)
    THEN [call EXCEPT !.pc = "put"]
    ELSE Reject(call, e)

\* catch (e) of getAndCache: value stays what it was before the try
S3catch(call, e) ==
    IF StaleFallback(call.existingCache, call.opts.returnStaleResultOnError)
    THEN S3return(call)
    ELSE Reject(call, e)

\* if (!existing || expired)
S3mustGenerate(existing, expired) == ~TruthyValue(existing) \/ expired

\* getAndCache from the GetObject response to the call of the generator
S3afterGet(i, call, st, t) ==
    LET existingCache == Lookup(st, S3fileName(call.key, call.opts.isBinary))
        expired == IF i = S3Legacy
                   THEN S3expiredLegacy(call.opts.staleAfterSeconds, existingCache, t)
                   ELSE S3expired(call.opts.staleAfterSeconds, existingCache, t)
        decoded == S3existing(existingCache, call.opts.isBinary)
        c1 == [call EXCEPT !.existingCache = existingCache, !.expired = expired,
                           !.mimeType = S3mimeType(call.opts.mimeType, existingCache),
                           !.pre = st, !.at = t]
    IN  IF decoded[1] # "ok" THEN Reject(c1, decoded[1])
        ELSE LET c2 == [c1 EXCEPT !.existing = decoded[2], !.value = decoded[2]]
             IN  IF S3mustGenerate(decoded[2], expired)
                 THEN [c2 EXCEPT !.pc = "generator", !.generatorArg = decoded[2],
                                 !.generatorCalls = @ + 1]
                 ELSE S3return(c2)

\* ---------------------------------------------------- FileSystemObjectCache
\* put: path.join(cacheDirectory, data instanceof Uint8Array ? cacheKey : `${cacheKey}.json`)
FSputPath(cacheKey, data) == IF data.bin THEN cacheKey ELSE cacheKey \o <<"json">>

\* faulty variant: the file is unlinked before it is written again
FSopenUnlinking(st, cacheKey, data, t) ==
    Remove(st, FSputPath(cacheKey, data))

\* put: fs.writeFile first opens cachePath with flag 'w', which creates the file or
\* truncates it, at time t (the file system stamps mtime)
FSopen(st, cacheKey, data, t) ==
    (FSputPath(cacheKey, data) :> [content |-> "", mtime |-> t]) @@ st

\* put: fs.writeFile then writes data through its own descriptor, from position 0; it
\* issues no write for empty data
FSput(st, cacheKey, data, t) ==
    LET cachePath == FSputPath(cacheKey, data)
        cur == IF cachePath \in DOMAIN st THEN st[cachePath].content ELSE ""
    IN  IF Serialize(data) = "" /\ cachePath \in DOMAIN st THEN st
        ELSE (cachePath :> [content |-> Overwrite(cur, Serialize(data)), mtime |-> t]) @@ st

\* getAndCache: mimeType === 'application/octet-stream' ? cacheKey : `${cacheKey}.${mime.getExtension(mimeType)}`
FScachePath(cacheKey, mimeType) ==
    IF mimeType = OctetStream THEN cacheKey
    ELSE cacheKey \o <<TemplateString(mimeGetExtension(mimeType))>>

\* glob(`${cacheKey}.*`): the names that continue cacheKey with a dot
FSglob(st, cacheKey) == {n \in DOMAIN st : IsPrefix(cacheKey, n) /\ Len(n) > Len(cacheKey)}

\* the media types files[0] can give: glob's order is the directory's
FSglobMimeTypes(st, cacheKey) ==
    IF FSglob(st, cacheKey) = {} THEN {OctetStream}
    ELSE {IF mimeGetType(f) = None THEN OctetStream ELSE mimeGetType(f)[1] : f \in FSglob(st, cacheKey)}

\* fileSystemObjectCache.ts: staleAfterSeconds !== undefined && typeof existingCache !== 'boolean' && age > staleAfterSeconds
FSexpired(staleAfterSeconds, existingCache, t) ==
    /\ staleAfterSeconds # None
    /\ existingCache # None
    /\ t - existingCache[1].mtime > staleAfterSeconds[1]

\* cache.ts: staleAfterSeconds && typeof existingCache !== 'boolean' && age > staleAfterSeconds
FSexpiredLegacy(staleAfterSeconds, existingCache, t) ==
    /\ staleAfterSeconds # None /\ staleAfterSeconds[1] # 0
    /\ existingCache # None
    /\ t - existingCache[1].mtime > staleAfterSeconds[1]

\* getAndCache up to its first await: the glob for a binary value with no mimeType, else fs.stat
FSbegin(call) ==
    IF call.opts.mimeType # None
    THEN [call EXCEPT !.pc = "stat", !.mimeType = call.opts.mimeType[1]]
    ELSE IF call.opts.isBinary
         THEN [call EXCEPT !.pc = "glob", !.mimeType = OctetStream]
         ELSE [call EXCEPT !.pc = "stat", !.mimeType = ApplicationJson]

\* catch (e) of getAndCache: swallow and go on to read cachePath, or rethrow
FScatch(call, e) ==
    IF StaleFallback(call.existingCache, call.opts.returnStaleResultOnError)
    THEN [call EXCEPT !.pc = "readBack"]
    ELSE Reject(call, e)

\* if (!existingCache || expired)
FSmustGenerate(existingCache, expired) == existingCache = None \/ expired

\* getAndCache from the fs.stat result to the next await
FSafterStat(i, call, st, t) ==
    LET cachePath == FScachePath(call.key, call.mimeType)
        existingCache == Lookup(st, cachePath)
        expired == IF i = FSLegacy
                   THEN FSexpiredLegacy(call.opts.staleAfterSeconds, existingCache, t)
                   ELSE FSexpired(call.opts.staleAfterSeconds, existingCache, t)
        c1 == [call EXCEPT !.cachePath = cachePath, !.existingCache = existingCache,
                           !.expired = expired, !.pre = st, !.at = t]
    IN  IF FSmustGenerate(existingCache, expired)
        THEN IF existingCache # None
             THEN [c1 EXCEPT !.pc = "readExisting"]
             ELSE [c1 EXCEPT !.pc = "generator", !.generatorCalls = @ + 1]
        ELSE [c1 EXCEPT !.pc = "readBack"]

\* inside the try: existingValue = await fs.readFile(cachePath), existing decoded, generator called
FSafterReadExisting(call, st) ==
    IF call.cachePath \notin DOMAIN st THEN FScatch(call, "ENOENT")
    ELSE LET existingValue == st[call.cachePath].content
             existing == IF ~TruthyRead(existingValue, call.opts.isBinary) THEN Some(None)
                         ELSE IF call.opts.isBinary THEN Some(Some(Bytes(existingValue)))
                         ELSE IF JSONparse(existingValue) = None THEN None
                         ELSE Some(JSONparse(existingValue))
         IN  IF existing = None THEN FScatch(call, "SyntaxError")
             ELSE [call EXCEPT !.pc = "generator", !.existing = existing[1],
                               !.generatorArg = existing[1], !.generatorCalls = @ + 1]

\* the end of getAndCache: cachePath is read again and decoded
FSreadBack(call, st) ==
    IF call.cachePath \notin DOMAIN st THEN Reject(call, "ENOENT")
    ELSE LET content == st[call.cachePath].content
         IN  IF call.opts.isBinary
             THEN IF call.opts.returnBinaryMetadata
                  THEN Resolve(call, Some([data |-> Some(Bytes(content)),
                                           fileExtension |-> mimeGetExtension(call.mimeType),
                                           mimeType |-> call.mimeType]))
                  ELSE Resolve(call, Some(Bytes(content)))
             ELSE IF JSONparse(content) = None THEN Reject(call, "SyntaxError")
             ELSE Resolve(call, JSONparse(content))

\* ------------------------------------------------------------------ actions
\* a bucket or directory after one put at time 0
StoreWith(i, cacheKey, data) ==
    IF IsS3(i) THEN S3put(EmptyStore, cacheKey, data, None, 0)
    ELSE FSput(EmptyStore, cacheKey, data, 0)

NoCall == [op |-> "none", key |-> <<>>, data |-> None, opts |-> NoOptions, entry |-> None]

\* a cache object of either class over an empty bucket or directory
InitWith(K) ==
    /\ impl \in Impls
    /\ store = [n \in {} |-> None]
    /\ now = 0
    /\ calls = [c \in Callers |-> IdleCall]
    /\ tasks = {}
    /\ ops = 0
    /\ last = NoCall
    /\ keys = K

Init == InitWith({KeyA})

CanCall(c) == calls[c].pc = "idle" /\ ops < MaxOps

Options(staleAfterSeconds, returnStaleResultOnError, isBinary, mimeType, returnBinaryMetadata) ==
    [staleAfterSeconds |-> staleAfterSeconds, returnStaleResultOnError |-> returnStaleResultOnError,
     isBinary |-> isBinary, mimeType |-> mimeType, returnBinaryMetadata |-> returnBinaryMetadata]

\* getAndCache up to its first await (S3: the GetObjectCommand is sent)
getAndCacheBegin(i, call) == IF IsS3(i) THEN [call EXCEPT !.pc = "get"] ELSE FSbegin(call)

\* the caller calls getAndCache(cacheKey, generator, options)
getAndCache(c) ==
    /\ CanCall(c)
    /\ \E key \in keys, sas \in StaleOptions, rs \in BOOLEAN, bin \in BOOLEAN, mT \in MimeOptions :
         calls' = [calls EXCEPT ![c] =
                     getAndCacheBegin(impl, [NewCall("getAndCache", key, "idle") EXCEPT
                                               !.opts = Options(sas, rs, bin, mT, FALSE)])]
    /\ ops' = ops + 1
    /\ UNCHANGED <<impl, store, now, tasks, last, keys>>

\* the caller calls getAndCacheBinary: getAndCache with isBinary and _returnBinaryMetadata forced
getAndCacheBinary(c) ==
    /\ CanCall(c)
    /\ \E key \in keys, sas \in StaleOptions, rs \in BOOLEAN, mT \in MimeOptions :
         calls' = [calls EXCEPT ![c] =
                     getAndCacheBegin(impl, [NewCall("getAndCacheBinary", key, "idle") EXCEPT
                                               !.opts = Options(sas, rs, TRUE, mT, TRUE)])]
    /\ ops' = ops + 1
    /\ UNCHANGED <<impl, store, now, tasks, last, keys>>

\* S3: the GetObject response arrives
S3GetObject(c) ==
    /\ calls[c].pc = "get"
    /\ calls' = [calls EXCEPT ![c] = S3afterGet(impl, calls[c], store, now)]
    /\ UNCHANGED <<impl, store, now, tasks, ops, last, keys>>

\* FS: the glob result arrives
FSGlob(c) ==
    /\ calls[c].pc = "glob"
    /\ \E mimeType \in FSglobMimeTypes(store, calls[c].key) :
         calls' = [calls EXCEPT ![c] = [calls[c] EXCEPT !.pc = "stat", !.mimeType = mimeType]]
    /\ UNCHANGED <<impl, store, now, tasks, ops, last, keys>>

\* FS: the fs.stat result arrives
FSStat(c) ==
    /\ calls[c].pc = "stat"
    /\ calls' = [calls EXCEPT ![c] = FSafterStat(impl, calls[c], store, now)]
    /\ UNCHANGED <<impl, store, now, tasks, ops, last, keys>>

\* FS: the existing file has been read
FSReadExisting(c) ==
    /\ calls[c].pc = "readExisting"
    /\ calls' = [calls EXCEPT ![c] = FSafterReadExisting(calls[c], store)]
    /\ UNCHANGED <<impl, store, now, tasks, ops, last, keys>>

\* the generator's promise resolves with value: put is called
generatorReturned(i, call, value) ==
    [call EXCEPT !.pc = "put", !.value = Some(value), !.generatorOutcome = "returned"]

\* faulty variant: a failed generator is called a second time before the catch block runs
generatorThrewRetry(i, call) ==
    IF call.generatorCalls < 2 THEN [call EXCEPT !.generatorCalls = @ + 1]
    ELSE IF IsS3(i) THEN S3catch([call EXCEPT !.generatorOutcome = "threw"], "GeneratorError")
    ELSE FScatch([call EXCEPT !.generatorOutcome = "threw"], "GeneratorError")

\* the generator's promise rejects: the catch block runs
generatorThrew(i, call) ==
    LET c1 == [call EXCEPT !.generatorOutcome = "threw"]
    IN  IF IsS3(i) THEN S3catch(c1, "GeneratorError") ELSE FScatch(c1, "GeneratorError")

GeneratorReturns(c) ==
    /\ calls[c].pc = "generator"
    /\ \E value \in Values(calls[c].opts.isBinary) :
         calls' = [calls EXCEPT ![c] = generatorReturned(impl, calls[c], value)]
    /\ UNCHANGED <<impl, store, now, tasks, ops, last, keys>>

GeneratorThrows(c) ==
    /\ calls[c].pc = "generator"
    /\ calls' = [calls EXCEPT ![c] = generatorThrew(impl, calls[c])]
    /\ UNCHANGED <<impl, store, now, tasks, ops, last, keys>>

\* the caller calls put(cacheKey, data, mimeType): the write is sent
put(c) ==
    /\ CanCall(c)
    /\ \E key \in keys, data \in AllValues, mT \in (IF IsS3(impl) THEN MimeOptions ELSE {None}) :
         calls' = [calls EXCEPT ![c] =
                     [NewCall("put", key, "put") EXCEPT !.data = Some(data), !.mimeArg = mT]]
    /\ ops' = ops + 1
    /\ UNCHANGED <<impl, store, now, tasks, last, keys>>

\* what the put of a call writes: put's own arguments, or getAndCache's value and mimeType
putData(call) == IF call.op \in {"put", "putBinary"} THEN call.data[1] ELSE call.value[1]
putMimeType(call) == IF call.op \in {"put", "putBinary"} THEN call.mimeArg ELSE Some(call.mimeType)

\* after await this.put(...)
afterPut(i, call) ==
    IF call.op \in {"put", "putBinary"} THEN Resolve(call, None)
    ELSE IF IsS3(i) THEN S3return(call)
    ELSE [call EXCEPT !.pc = "readBack"]

\* FS: fs.writeFile has opened the file
FSOpen(c) ==
    /\ calls[c].pc = "put" /\ ~IsS3(impl)
    /\ store' = FSopen(store, calls[c].key, putData(calls[c]), now)
    /\ calls' = [calls EXCEPT ![c] = [calls[c] EXCEPT !.pc = "write"]]
    /\ UNCHANGED <<impl, now, tasks, ops, last, keys>>

\* the backend applies the write and acknowledges it
PutDone(c) ==
    /\ calls[c].pc = IF IsS3(impl) THEN "put" ELSE "write"
    /\ store' = IF IsS3(impl)
                THEN S3put(store, calls[c].key, putData(calls[c]), putMimeType(calls[c]), now)
                ELSE FSput(store, calls[c].key, putData(calls[c]), now)
    /\ calls' = [calls EXCEPT ![c] = afterPut(impl, calls[c])]
    /\ UNCHANGED <<impl, now, tasks, ops, last, keys>>

\* FS: the final fs.readFile(cachePath) result arrives
FSReadBack(c) ==
    /\ calls[c].pc = "readBack"
    /\ calls' = [calls EXCEPT ![c] = FSreadBack(calls[c], store)]
    /\ UNCHANGED <<impl, store, now, tasks, ops, last, keys>>

\* putBinary of fileSystemObjectCache.ts: return this.put(cacheKey, data);
\* of s3ObjectCache.ts and of both classes of cache.ts: return this.putBinary(cacheKey, data, mimeType)
putBinaryBody(i, call) ==
    IF i = FS THEN [call EXCEPT !.pc = "put"]
    ELSE IF call.depth < MaxStack THEN [call EXCEPT !.pc = "putBinary", !.depth = @ + 1]
    ELSE [call EXCEPT !.pc = "settled", !.outcome = "threw", !.error = "RangeError"]

\* the caller calls putBinary(cacheKey, data, mimeType)
putBinary(c) ==
    /\ CanCall(c)
    /\ \E key \in keys, data \in Values(TRUE), mT \in (IF IsS3(impl) THEN MimeOptions ELSE {None}) :
         calls' = [calls EXCEPT ![c] =
                     putBinaryBody(impl, [NewCall("putBinary", key, "idle") EXCEPT
                                            !.data = Some(data), !.mimeArg = mT, !.depth = 1])]
    /\ ops' = ops + 1
    /\ UNCHANGED <<impl, store, now, tasks, last, keys>>

\* putBinary has called this.putBinary: one more frame
putBinaryRecurse(c) ==
    /\ calls[c].pc = "putBinary"
    /\ calls' = [calls EXCEPT ![c] = putBinaryBody(impl, calls[c])]
    /\ UNCHANGED <<impl, store, now, tasks, ops, last, keys>>

\* clearCache (s3ObjectCache.ts only): deleteFile is called twice and neither promise is
\* awaited; each has sent its HeadObjectCommand when clearCache's own promise resolves
clearCacheTasks(cacheKey, id) ==
    {[id |-> id, cacheKey |-> cacheKey, Key |-> cacheKey \o <<"gz">>, pc |-> "head"],
     [id |-> id, cacheKey |-> cacheKey, Key |-> cacheKey \o <<"json", "gz">>, pc |-> "head"]}

clearCache(c) ==
    /\ CanCall(c)
    /\ impl = S3
    /\ \E key \in keys :
         /\ calls' = [calls EXCEPT ![c] = Resolve(NewCall("clearCache", key, "idle"), None)]
         /\ tasks' = tasks \cup clearCacheTasks(key, ops)
    /\ ops' = ops + 1
    /\ UNCHANGED <<impl, store, now, last, keys>>

\* deleteFile: the HeadObject response arrives; if (fileExist) the DeleteObjectCommand is sent
deleteFileHead(t) ==
    /\ t \in tasks /\ t.pc = "head"
    /\ tasks' = IF t.Key \in DOMAIN store
                THEN (tasks \ {t}) \cup {[t EXCEPT !.pc = "delete"]}
                ELSE tasks \ {t}
    /\ UNCHANGED <<impl, store, now, calls, ops, last, keys>>

\* deleteFile: S3 applies the DeleteObjectCommand
deleteFileDelete(t) ==
    /\ t \in tasks /\ t.pc = "delete"
    /\ store' = Remove(store, t.Key)
    /\ tasks' = tasks \ {t}
    /\ UNCHANGED <<impl, now, calls, ops, last, keys>>

\* the caller's await returns (or throws): the call is over
Return(c) ==
    /\ calls[c].pc = "settled"
    /\ calls' = [calls EXCEPT ![c] = IdleCall]
    /\ last' = IF calls[c].op = "put"
               THEN [NoCall EXCEPT !.op = "put", !.key = calls[c].key, !.data = calls[c].data]
               ELSE IF calls[c].generatorOutcome = "threw" /\ calls[c].outcome = "resolved"
               THEN [op |-> "staleFallback", key |-> calls[c].key,
                     data |-> IF calls[c].opts.returnBinaryMetadata
                              THEN calls[c].result[1].data ELSE calls[c].result,
                     opts |-> calls[c].opts, entry |-> calls[c].existingCache]
               ELSE NoCall
    /\ UNCHANGED <<impl, store, now, tasks, ops, keys>>

\* time passes
Tick ==
    /\ now < MaxTime
    /\ now' = now + 1
    /\ UNCHANGED <<impl, store, calls, tasks, ops, last, keys>>

\* the steps of caller c
CallerStep(c) ==
    \/ getAndCache(c) \/ getAndCacheBinary(c) \/ put(c) \/ putBinary(c) \/ clearCache(c)
    \/ S3GetObject(c) \/ FSGlob(c) \/ FSStat(c) \/ FSReadExisting(c)
    \/ GeneratorReturns(c) \/ GeneratorThrows(c) \/ FSOpen(c) \/ PutDone(c) \/ FSReadBack(c)
    \/ putBinaryRecurse(c) \/ Return(c)

BackgroundStep == \E t \in tasks : deleteFileHead(t) \/ deleteFileDelete(t)

\* one caller, awaiting each call before the next
Next == CallerStep(1) \/ BackgroundStep \/ Tick

Spec == Init /\ [][Next]_vars

\* the same caller using the keys 'a' and 'a.json'
SpecDottedKeys == InitWith(Keys) /\ [][Next]_vars

\* the same caller over a bucket or directory that already holds the structured entry
\* of 'a', put at time 0
InitAfterPut ==
    /\ impl \in Impls
    /\ store = StoreWith(impl, KeyA, Json("{test:1}"))
    /\ now = 0
    /\ calls = [c \in Callers |-> IdleCall]
    /\ tasks = {}
    /\ ops = 0
    /\ last = NoCall
    /\ keys = {KeyA}

SpecAfterPut == InitAfterPut /\ [][Next]_vars

\* ---------------------------------------------------------- backend faults
\* S3: the GetObjectCommand fails with an error other than NoSuchKey (access denied,
\* network); .catch(() => undefined) gives existingCache the value it has for a miss
S3GetObjectFails(c) ==
    /\ calls[c].pc = "get"
    /\ calls' = [calls EXCEPT ![c] =
                   [S3afterGet(impl, calls[c], EmptyStore, now) EXCEPT
                      !.pre = store, !.fault = "read"]]
    /\ UNCHANGED <<impl, store, now, tasks, ops, last, keys>>

\* FS: fs.stat fails with an error other than ENOENT (EACCES, EIO);
\* .catch((_e) => false) gives existingCache the value it has for a miss
FSStatFails(c) ==
    /\ calls[c].pc = "stat"
    /\ calls' = [calls EXCEPT ![c] =
                   [FSafterStat(impl, calls[c], EmptyStore, now) EXCEPT
                      !.pre = store, !.fault = "read"]]
    /\ UNCHANGED <<impl, store, now, tasks, ops, last, keys>>

\* this.put rejects: put and putBinary reject with the error, getAndCache is inside its
\* try block and runs catch (e)
putThrew(i, call) ==
    LET c1 == [call EXCEPT !.fault = "write"]
    IN  IF call.op \in {"put", "putBinary"} THEN Reject(c1, "PutError")
        ELSE IF IsS3(i) THEN S3catch(c1, "PutError") ELSE FScatch(c1, "PutError")

\* the backend refuses the write (S3: PutObjectCommand; FS: the open of fs.writeFile)
PutFails(c) ==
    /\ calls[c].pc = "put"
    /\ calls' = [calls EXCEPT ![c] = putThrew(impl, calls[c])]
    /\ UNCHANGED <<impl, store, now, tasks, ops, last, keys>>

\* one caller, with lookups and writes that can fail
NextFaults == Next \/ S3GetObjectFails(1) \/ FSStatFails(1) \/ PutFails(1)

SpecFaults == Init /\ [][NextFaults]_vars

\* Two callers sharing one cache object, each calling getAndCache without awaiting the
\* other, over a bucket or directory that is empty or holds one entry put at time 0.
InitConcurrent ==
    /\ impl \in Impls
    /\ store \in {EmptyStore, StoreWith(impl, KeyA, Json("{test:1}"))}
    /\ now = 0
    /\ calls = [c \in Callers |-> IdleCall]
    /\ tasks = {}
    /\ ops = 0
    /\ last = NoCall
    /\ keys = {KeyA}

\* a caller calls getAndCache(cacheKey, generator) or
\* getAndCache(cacheKey, generator, {staleAfterSeconds: 0})
getAndCacheConcurrently(c) ==
    /\ CanCall(c)
    /\ \E key \in keys, sas \in {None, Some(0)} :
         calls' = [calls EXCEPT ![c] =
                     getAndCacheBegin(impl, [NewCall("getAndCache", key, "idle") EXCEPT
                                               !.opts = Options(sas, FALSE, FALSE, None, FALSE)])]
    /\ ops' = ops + 1
    /\ UNCHANGED <<impl, store, now, tasks, last, keys>>

ConcurrentStep(c) ==
    \/ getAndCacheConcurrently(c)
    \/ S3GetObject(c) \/ FSStat(c) \/ FSReadExisting(c)
    \/ GeneratorReturns(c) \/ GeneratorThrows(c) \/ FSOpen(c) \/ PutDone(c) \/ FSReadBack(c)
    \/ Return(c)

NextConcurrent == (\E c \in Callers : ConcurrentStep(c)) \/ Tick

SpecConcurrent == InitConcurrent /\ [][NextConcurrent]_vars

\* ------------------------------------------------------------ vocabulary
\* the storage identifier put writes a value of one representation under
StorageId(i, cacheKey, isBinary) ==
    IF IsS3(i) THEN S3putFileName(cacheKey, [bin |-> isBinary])
    ELSE FSputPath(cacheKey, [bin |-> isBinary])

\* the value an object or file holds, read in one representation; None when it does
\* not decode
EntryValue(i, entry, isBinary) ==
    LET content == IF IsS3(i) THEN gunzipSync(entry.Body) ELSE entry.content
    IN  IF isBinary THEN Some(Bytes(content)) ELSE JSONparse(content)

\* the time an object or file was last written
EntryTime(i, entry) == IF IsS3(i) THEN entry.LastModified ELSE entry.mtime

Settled(c) == calls[c].pc = "settled"
IsGet(c) == calls[c].op \in {"getAndCache", "getAndCacheBinary"}
\* the entry of the call's key and representation, as the call's lookup found the backend
IdOf(c) == StorageId(impl, calls[c].key, calls[c].opts.isBinary)
EntryExisted(c) == IdOf(c) \in DOMAIN calls[c].pre
StoredBefore(c) == EntryValue(impl, calls[c].pre[IdOf(c)], calls[c].opts.isBinary)
AgeAtLookup(c) == calls[c].at - EntryTime(impl, calls[c].pre[IdOf(c)])
\* expired as the design defines it: staleAfterSeconds is set and the age exceeds it
ExpiredAtLookup(c) ==
    /\ calls[c].opts.staleAfterSeconds # None
    /\ AgeAtLookup(c) > calls[c].opts.staleAfterSeconds[1]
\* the value a resolved getAndCache handed back (the data of the envelope)
Returned(c) ==
    IF calls[c].opts.returnBinaryMetadata THEN calls[c].result[1].data ELSE calls[c].result
Resolved(c) == calls[c].outcome = "resolved"
\* the key has no entry in st, structured or binary
NoEntry(st, cacheKey) == \A b \in BOOLEAN : StorageId(impl, cacheKey, b) \notin DOMAIN st
\* the media type an entry is stored with: the object's ContentType, or what the
\* file's extension stands for
MediaTypeOf(i, st, name) ==
    IF IsS3(i) THEN st[name].ContentType
    ELSE IF mimeGetType(name) = None THEN OctetStream ELSE mimeGetType(name)[1]
\* the media type the design resolves for a call: the option, else the existing
\* entry's, else the default of the representation
ResolvedMediaType(c) ==
    IF calls[c].opts.mimeType # None THEN calls[c].opts.mimeType[1]
    ELSE IF EntryExisted(c) THEN MediaTypeOf(impl, calls[c].pre, IdOf(c))
    ELSE IF calls[c].opts.isBinary THEN OctetStream ELSE ApplicationJson
RejectedWith(c, e) == calls[c].outcome = "rejected" /\ calls[c].error = e

\* the generator of the README example: const e = existing ?? {test: 1}; e.test++; return e
\* (for the values of the shape {test: n} that the example stores)
incrementingGenerator(existing) ==
    IF existing = None \/ existing[1].v = "{test:1}" THEN Json("{test:2}")
    ELSE Json("{test:3}")

\* -------------------------------------------------------------- the claims
\* C1: when an entry exists and is not expired, getAndCache (called without a media
\* type option) returns the stored value and does not invoke the generator, whatever
\* the stored value is (0 included), in every class.
C1_FreshEntryIsServed ==
    \A c \in Callers :
        (Settled(c) /\ IsGet(c) /\ EntryExisted(c) /\ ~ExpiredAtLookup(c)
           /\ calls[c].opts.mimeType = None)
            => /\ calls[c].generatorCalls = 0
               /\ Resolved(c)
               /\ Returned(c) = StoredBefore(c)

\* C2: with staleAfterSeconds = 0 and an existing entry, every getAndCache call invokes
\* the generator, whatever the age of the entry (age zero included).
C2_ZeroAlwaysRegenerates ==
    \A c \in Callers :
        (Settled(c) /\ IsGet(c) /\ EntryExisted(c) /\ calls[c].opts.staleAfterSeconds = Some(0))
            => calls[c].generatorCalls >= 1

\* C3: for a key with no stored entry, a getAndCache call whose generator succeeds
\* invokes the generator exactly once and returns the generator's output.
C3_MissGeneratesOnce ==
    \A c \in Callers :
        (Settled(c) /\ IsGet(c) /\ NoEntry(calls[c].pre, calls[c].key)
           /\ calls[c].generatorOutcome # "threw")
            => /\ calls[c].generatorCalls = 1
               /\ calls[c].generatorOutcome = "returned"
               /\ Resolved(c)
               /\ Returned(c) = calls[c].value

\* C4: if the generator fails, an entry exists and returnStaleResultOnError is true,
\* getAndCache completes without error and returns the previously stored value.
C4_StaleFallback ==
    \A c \in Callers :
        (Settled(c) /\ IsGet(c) /\ calls[c].generatorOutcome = "threw"
           /\ EntryExisted(c) /\ calls[c].opts.returnStaleResultOnError)
            => Resolved(c) /\ Returned(c) = StoredBefore(c)

\* C5: if the generator fails, an entry exists and returnStaleResultOnError is false or
\* absent, getAndCache fails with the generator's error, and no step of a getAndCache
\* call whose generator has not returned changes the backend (the entry keeps its
\* content, media type and last-modified time).
C5_ErrorPropagates ==
    \A c \in Callers :
        (Settled(c) /\ IsGet(c) /\ calls[c].generatorOutcome = "threw"
           /\ EntryExisted(c) /\ ~calls[c].opts.returnStaleResultOnError)
            => RejectedWith(c, "GeneratorError")

C5_NoWriteBeforeGeneratorReturned ==
    \A c \in Callers :
        (calls'[c] # calls[c] /\ calls'[c].op \in {"getAndCache", "getAndCacheBinary"}
           /\ calls[c].generatorOutcome # "returned")
            => store' = store

C5_GeneratorErrorLeavesEntry == []C5_ErrorPropagates /\ [][C5_NoWriteBeforeGeneratorReturned]_vars

C5_Witness ==
    \E c \in Callers :
        /\ Settled(c) /\ IsGet(c) /\ calls[c].generatorOutcome = "threw"
        /\ EntryExisted(c) /\ ~calls[c].opts.returnStaleResultOnError
        /\ RejectedWith(c, "GeneratorError")
        /\ IdOf(c) \in DOMAIN store /\ store[IdOf(c)] = calls[c].pre[IdOf(c)]

\* C6: if the generator fails and no entry exists for the key (structured or binary),
\* getAndCache fails with the generator's error whatever returnStaleResultOnError is,
\* and no entry exists for the key afterwards.
C6_MissErrorPropagates ==
    \A c \in Callers :
        (Settled(c) /\ IsGet(c) /\ calls[c].generatorOutcome = "threw"
           /\ NoEntry(calls[c].pre, calls[c].key))
            => RejectedWith(c, "GeneratorError") /\ NoEntry(store, calls[c].key)

C6_Witness ==
    \E c \in Callers :
        /\ Settled(c) /\ IsGet(c) /\ calls[c].generatorOutcome = "threw"
        /\ NoEntry(calls[c].pre, calls[c].key) /\ calls[c].opts.returnStaleResultOnError
        /\ RejectedWith(c, "GeneratorError") /\ NoEntry(store, calls[c].key)

\* C7: put(key, value) followed immediately by getAndCache(key, generator) with no
\* staleness option returns value and never invokes the generator, whatever was stored
\* under the key before the put.
C7_RoundTrip ==
    \A c \in Callers :
        (Settled(c) /\ IsGet(c) /\ last.op = "put" /\ last.key = calls[c].key
           /\ last.data[1].bin = calls[c].opts.isBinary
           /\ calls[c].opts.staleAfterSeconds = None /\ calls[c].opts.mimeType = None)
            => /\ calls[c].generatorCalls = 0
               /\ Resolved(c)
               /\ Returned(c) = last.data

\* C8: once the promise of clearCache(key) has resolved, neither the structured nor
\* the binary entry of that key is in the bucket.
C8_ClearedWhenResolved ==
    \A c \in Callers :
        (Settled(c) /\ calls[c].op = "clearCache" /\ Resolved(c))
            => /\ StorageId(impl, calls[c].key, TRUE) \notin DOMAIN store
               /\ StorageId(impl, calls[c].key, FALSE) \notin DOMAIN store

\* C9: every putBinary(key, data) call completes with the binary entry of key holding
\* exactly data.
C9_PutBinaryStores ==
    \A c \in Callers :
        (Settled(c) /\ calls[c].op = "putBinary")
            => /\ Resolved(c)
               /\ StorageId(impl, calls[c].key, TRUE) \in DOMAIN store
               /\ EntryValue(impl, store[StorageId(impl, calls[c].key, TRUE)], TRUE) = calls[c].data

\* C10: in every getAndCache call the generator is invoked at most once.
C10_GeneratorAtMostOnce == \A c \in Callers : calls[c].generatorCalls <= 1

C10_Witness ==
    \E c \in Callers :
        /\ Settled(c) /\ IsGet(c) /\ calls[c].expired
        /\ calls[c].generatorCalls = 1 /\ calls[c].generatorOutcome = "threw" /\ Resolved(c)

\* C11: when an entry exists and is expired and the generator succeeds, getAndCache
\* returns the generator's output and, when the call completes, the backend stores
\* that output under the key in place of the old value.
C11_RegenerationStoresOutput ==
    \A c \in Callers :
        (Settled(c) /\ IsGet(c) /\ EntryExisted(c) /\ ExpiredAtLookup(c)
           /\ calls[c].generatorOutcome = "returned")
            => /\ Resolved(c)
               /\ Returned(c) = calls[c].value
               /\ IdOf(c) \in DOMAIN store
               /\ EntryValue(impl, store[IdOf(c)], calls[c].opts.isBinary) = calls[c].value

\* C12: when staleAfterSeconds is absent, an existing entry is served without invoking
\* the generator however much time has passed since it was written.
C12_NoStalenessNeverExpires ==
    \A c \in Callers :
        (Settled(c) /\ IsGet(c) /\ EntryExisted(c) /\ AgeAtLookup(c) >= 1
           /\ calls[c].opts.staleAfterSeconds = None /\ calls[c].opts.mimeType = None)
            => /\ calls[c].generatorCalls = 0
               /\ Resolved(c)
               /\ Returned(c) = StoredBefore(c)

\* C13: concurrent getAndCache calls on one key are not deduplicated: when two calls
\* read the same missing or expired entry before either writes and both generators
\* succeed, each call has invoked its generator once and, once both have completed,
\* the stored value is the output of one of them (of the call whose write was applied
\* last), never a mix of the two outputs.
C13_ConcurrentCallsLastWriteWins ==
    \A c1, c2 \in Callers :
        (/\ c1 # c2 /\ Settled(c1) /\ Settled(c2) /\ IsGet(c1) /\ IsGet(c2)
         /\ IdOf(c1) = IdOf(c2)
         /\ Lookup(calls[c1].pre, IdOf(c1)) = Lookup(calls[c2].pre, IdOf(c2))
         /\ calls[c1].generatorOutcome = "returned" /\ calls[c2].generatorOutcome = "returned")
            => /\ calls[c1].generatorCalls = 1 /\ calls[c2].generatorCalls = 1
               /\ IdOf(c1) \in DOMAIN store
               /\ EntryValue(impl, store[IdOf(c1)], calls[c1].opts.isBinary)
                    \in {calls[c1].value, calls[c2].value}

\* C14: the media type getAndCache uses for the write and for the binary envelope is
\* options.mimeType when given, otherwise the stored media type of the existing entry,
\* otherwise application/json for a structured value and application/octet-stream for
\* a binary one; a structured value first generated with no mimeType is stored as
\* application/json.
C14_MediaTypeResolution ==
    \A c \in Callers :
        (Settled(c) /\ IsGet(c) /\ Resolved(c))
            => /\ calls[c].generatorOutcome = "returned"
                    => /\ IdOf(c) \in DOMAIN store
                       /\ MediaTypeOf(impl, store, IdOf(c)) = ResolvedMediaType(c)
               /\ calls[c].opts.returnBinaryMetadata
                    => calls[c].result[1].mimeType = ResolvedMediaType(c)

\* C15: the structured and the binary value of one key are kept apart: after
\* put(key, structuredValue), a binary getAndCache / getAndCacheBinary on that key with no
\* mimeType finds no binary entry (it invokes the generator and never returns the bytes
\* of the structured entry) and leaves the structured entry unchanged.
C15_RepresentationsKeptApart ==
    \A c \in Callers :
        LET structured == StorageId(impl, calls[c].key, FALSE)
        IN  (/\ Settled(c) /\ IsGet(c) /\ calls[c].opts.isBinary
             /\ calls[c].opts.mimeType = None
             /\ ~EntryExisted(c) /\ structured \in DOMAIN calls[c].pre)
                => /\ calls[c].generatorCalls = 1
                   /\ Resolved(c) =>
                        Returned(c) # EntryValue(impl, calls[c].pre[structured], TRUE)
                   /\ structured \in DOMAIN store
                   /\ store[structured] = calls[c].pre[structured]

\* C16: a backend read failure other than not-found during the lookup of getAndCache
\* makes the call fail: the generator is not invoked and the entry is not overwritten.
C16_ReadFailurePropagates ==
    \A c \in Callers :
        (Settled(c) /\ IsGet(c) /\ calls[c].fault = "read")
            => /\ calls[c].outcome = "rejected"
               /\ calls[c].generatorCalls = 0
               /\ store = calls[c].pre

\* C17: the stale fallback is taken only when the generator itself failed: if the
\* generator succeeds and the backend write (put) then fails, getAndCache fails with the
\* write error, even when an entry existed and returnStaleResultOnError is true.
C17_WriteFailurePropagates ==
    \A c \in Callers :
        (Settled(c) /\ IsGet(c) /\ calls[c].generatorOutcome = "returned"
           /\ calls[c].fault = "write")
            => RejectedWith(c, "PutError")

\* C18: if the stored structured entry cannot be decoded (malformed or empty JSON text),
\* getAndCache fails with the decode error for every combination of options (expired
\* entry and returnStaleResultOnError included), without invoking the generator and
\* without modifying the entry.
C18_DecodeErrorPropagates ==
    \A c \in Callers :
        (/\ Settled(c) /\ IsGet(c) /\ ~calls[c].opts.isBinary /\ calls[c].opts.mimeType = None
         /\ EntryExisted(c) /\ StoredBefore(c) = None)
            => /\ RejectedWith(c, "SyntaxError")
               /\ calls[c].generatorCalls = 0
               /\ IdOf(c) \in DOMAIN store /\ store[IdOf(c)] = calls[c].pre[IdOf(c)]

\* C19: after a binary value b is stored under a key with put, getAndCacheBinary on
\* that key (entry fresh, no mimeType) does not invoke the generator and returns an
\* envelope whose data is b, whose mimeType is the media type stored for the entry and
\* whose fileExtension is the extension of that media type.
C19_BinaryEnvelopeOfStoredEntry ==
    \A c \in Callers :
        (/\ Settled(c) /\ calls[c].op = "getAndCacheBinary" /\ calls[c].opts.mimeType = None
         /\ last.op = "put" /\ last.key = calls[c].key /\ last.data[1].bin
         /\ EntryExisted(c) /\ ~ExpiredAtLookup(c))
            => /\ calls[c].generatorCalls = 0
               /\ Resolved(c)
               /\ calls[c].result[1].data = last.data
               /\ calls[c].result[1].mimeType = MediaTypeOf(impl, calls[c].pre, IdOf(c))
               /\ calls[c].result[1].fileExtension
                    = mimeGetExtension(MediaTypeOf(impl, calls[c].pre, IdOf(c)))

\* C20: across put and getAndCache calls an entry that exists is never removed: a name
\* leaves the bucket or directory only in the delete step of a clearCache, and a call
\* that found its entry and has completed has not left the key without one (classes
\* without clearCache).
C20_RemovedOnlyByClearCache ==
    \A n \in DOMAIN store :
        n \notin DOMAIN store' =>
            \E t \in tasks : t.pc = "delete" /\ t.Key = n /\ t \notin tasks'

C20_CompletedCallKeepsEntry ==
    \A c \in Callers :
        (Settled(c) /\ IsGet(c) /\ EntryExisted(c) /\ impl # S3) => IdOf(c) \in DOMAIN store

C20_EntriesNeverRemoved == []C20_CompletedCallKeepsEntry /\ [][C20_RemovedOnlyByClearCache]_vars

C20_Witness ==
    \E c \in Callers :
        /\ Settled(c) /\ IsGet(c) /\ EntryExisted(c) /\ impl # S3
        /\ calls[c].generatorOutcome = "returned"
        /\ IdOf(c) \in DOMAIN store /\ store[IdOf(c)] # calls[c].pre[IdOf(c)]

\* C21: clearCache is idempotent: on a key that has no entry, or twice in a row on one
\* key, it completes without an error reaching the caller, and it leaves the entries of
\* every other key unchanged (here: the entry the caller has just put under another key).
C21_ClearCacheCompletes ==
    \A c \in Callers : (Settled(c) /\ calls[c].op = "clearCache") => Resolved(c)

C21_OtherKeysUnchanged ==
    \A c \in Callers :
        (/\ Settled(c) /\ calls[c].op = "clearCache"
         /\ last.op = "put" /\ last.key # calls[c].key)
            => LET n == StorageId(impl, last.key, last.data[1].bin)
               IN  Lookup(store', n) = Lookup(store, n)

C21_ClearCacheIdempotent == []C21_ClearCacheCompletes /\ [][C21_OtherKeysUnchanged]_vars

\* C22: the last-modified time of an entry is assigned by the backend at write time
\* (every step that writes an entry stamps it with the backend's clock, whatever the
\* call's arguments) and never decreases over successive writes of the entry.
C22_StampedAtWriteTime ==
    \A n \in DOMAIN store' :
        (n \notin DOMAIN store \/ store'[n] # store[n])
            => /\ EntryTime(impl, store'[n]) = now
               /\ n \in DOMAIN store => EntryTime(impl, store'[n]) >= EntryTime(impl, store[n])

C22_NeverInTheFuture == \A n \in DOMAIN store : EntryTime(impl, store[n]) <= now

C23_OctetStreamHasNoExtension ==
    \A c \in Callers :
        (Settled(c) /\ calls[c].op = "getAndCacheBinary" /\ Resolved(c))
            => /\ calls[c].result[1].fileExtension = mimeGetExtension(calls[c].result[1].mimeType)
               /\ calls[c].result[1].mimeType = OctetStream
                    => calls[c].result[1].fileExtension = None

\* C23 (amended): in the envelope of getAndCacheBinary, fileExtension is
\* mime.getExtension of the envelope's mimeType, and for application/octet-stream it is
\* "bin", the extension the mime library gives that type.
C23_ExtensionOfMediaType ==
    \A c \in Callers :
        (Settled(c) /\ calls[c].op = "getAndCacheBinary" /\ Resolved(c))
            => /\ calls[c].result[1].fileExtension = mimeGetExtension(calls[c].result[1].mimeType)
               /\ calls[c].result[1].mimeType = OctetStream
                    => calls[c].result[1].fileExtension = Some("bin")

C23_Witness ==
    \E c \in Callers :
        /\ Settled(c) /\ calls[c].op = "getAndCacheBinary" /\ Resolved(c)
        /\ calls[c].result[1].mimeType = OctetStream
        /\ calls[c].result[1].fileExtension = Some("bin")

\* C24: getAndCache invokes the generator if and only if no entry exists or
\* staleAfterSeconds is set and the entry's age is strictly greater than it: an entry
\* whose age equals staleAfterSeconds is served from the cache, and no value is served
\* without a generator call at a greater age.
C24_GeneratorIffMissingOrExpired ==
    \A c \in Callers :
        (Settled(c) /\ IsGet(c) /\ calls[c].opts.mimeType = None)
            => (calls[c].generatorCalls >= 1 <=> (~EntryExisted(c) \/ ExpiredAtLookup(c)))

\* C25: for every explicit options.mimeType, structured or binary, a getAndCache on a
\* missing key whose generator succeeds returns the generator's output, and a following
\* getAndCache with the same key and options finds the entry and returns it without
\* invoking the generator.
C25_ExplicitMediaTypeRoundTrip ==
    \A c \in Callers :
        (Settled(c) /\ IsGet(c) /\ calls[c].opts.mimeType # None)
            => /\ (NoEntry(calls[c].pre, calls[c].key) /\ calls[c].generatorOutcome = "returned")
                    => (Resolved(c) /\ Returned(c) = calls[c].value)
               /\ (EntryExisted(c) /\ ~ExpiredAtLookup(c)
                      /\ TruthyValue(StoredBefore(c)))
                    => (calls[c].generatorCalls = 0 /\ Resolved(c)
                          /\ Returned(c) = StoredBefore(c))

\* C26: in the S3 class, when clearCache(key) has resolved and a later put(key, v) has
\* been acknowledged, the entry holds v for every subsequent read: no delete started
\* by the earlier clearCache is applied after the put. (The caller awaits each call, so
\* every delete still in flight once the put has returned was started by a clearCache
\* that had resolved before the put was called.)
C26_NoDeleteAfterLaterPut ==
    (impl = S3 /\ last.op = "put" /\ calls[1] = IdleCall)
        => /\ StorageId(impl, last.key, last.data[1].bin) \in DOMAIN store
           /\ EntryValue(impl, store[StorageId(impl, last.key, last.data[1].bin)], last.data[1].bin)
                = last.data

\* C27: under concurrent getAndCache calls on one key, every call whose own generator
\* and own write succeeded returns its own generator's output, not another call's
\* value, and does not fail.
C27_ConcurrentCallReturnsOwnOutput ==
    \A c \in Callers :
        (Settled(c) /\ IsGet(c) /\ calls[c].generatorOutcome = "returned"
           /\ calls[c].fault = "none")
            => (Resolved(c) /\ Returned(c) = calls[c].value)

\* C28: the generator receives the decoded existing value when an entry exists (the
\* expired value on a regeneration) and undefined when none exists; with the README's
\* incrementing generator a regeneration therefore stores the previously stored value
\* plus one.
C28_GeneratorReceivesExisting ==
    \A c \in Callers :
        (Settled(c) /\ IsGet(c) /\ calls[c].generatorCalls >= 1)
            => /\ calls[c].generatorArg = (IF EntryExisted(c) THEN StoredBefore(c) ELSE None)
               /\ (/\ EntryExisted(c) /\ StoredBefore(c) = Some(Json("{test:1}"))
                   /\ calls[c].generatorOutcome = "returned"
                   /\ calls[c].value = Some(incrementingGenerator(calls[c].generatorArg)))
                    => /\ IdOf(c) \in DOMAIN store
                       /\ EntryValue(impl, store[IdOf(c)], FALSE)
                            = Some(incrementingGenerator(StoredBefore(c)))

\* C29 (first part): the steps of a getAndCache that has not invoked its generator
\* leave the backend as it is, the entry's last-modified time included.
C29_HitLeavesBackend ==
    (/\ tasks' = tasks
     /\ calls'[1].op \in {"getAndCache", "getAndCacheBinary"}
     /\ calls'[1].generatorCalls = 0)
        => store' = store

\* C29 (second part): reads do not extend an entry's lifetime: every call made more
\* than staleAfterSeconds seconds after the last write invokes the generator.
C29_OlderEntryAlwaysRegenerated ==
    \A c \in Callers :
        (Settled(c) /\ IsGet(c) /\ EntryExisted(c) /\ ExpiredAtLookup(c))
            => calls[c].generatorCalls >= 1

\* C29: a getAndCache that serves a fresh entry leaves the backend unchanged, the
\* last-modified time included, so hits do not extend the entry's lifetime and any
\* call made more than staleAfterSeconds seconds after the last write invokes the
\* generator.
C29_HitsDoNotExtendLifetime ==
    []C29_OlderEntryAlwaysRegenerated /\ [][C29_HitLeavesBackend]_vars

\* C30 (first part): no step of a getAndCache whose generator has failed writes the
\* backend: the fallback leaves the entry's content and last-modified time as they were.
C30_FallbackLeavesBackend ==
    (/\ tasks' = tasks
     /\ calls'[1].op \in {"getAndCache", "getAndCacheBinary"}
     /\ calls'[1].generatorOutcome = "threw")
        => store' = store

\* C30 (second part): the getAndCache that follows a stale fallback with the same key
\* and options, and finds the entry as the fallback left it, invokes the generator
\* again, and if the generator fails again it returns the same stale value.
C30_NextCallRegenerates ==
    \A c \in Callers :
        (/\ Settled(c) /\ IsGet(c) /\ last.op = "staleFallback"
         /\ last.key = calls[c].key /\ last.opts = calls[c].opts
         /\ calls[c].existingCache = last.entry)
            => /\ calls[c].generatorCalls = 1
               /\ calls[c].generatorOutcome = "threw"
                    => (Resolved(c) /\ Returned(c) = last.data)

\* C30: a stale fallback leaves the entry unchanged (content and last-modified time), so
\* the entry stays expired: the next getAndCache with the same options invokes the
\* generator again, and the stale value is returned for as long as the generator keeps
\* failing.
C30_StaleFallbackKeepsEntryExpired ==
    []C30_NextCallRegenerates /\ [][C30_FallbackLeavesBackend]_vars

C30_Witness ==
    \E c \in Callers :
        /\ Settled(c) /\ IsGet(c) /\ last.op = "staleFallback"
        /\ last.key = calls[c].key /\ last.opts = calls[c].opts
        /\ calls[c].existingCache = last.entry /\ last.entry # None
        /\ calls[c].generatorCalls = 1 /\ calls[c].generatorOutcome = "threw"
        /\ Resolved(c) /\ Returned(c) = last.data
        /\ IdOf(c) \in DOMAIN store /\ Lookup(store, IdOf(c)) = Lookup(calls[c].pre, IdOf(c))

\* C31: with sequential calls only, whenever a getAndCache call completes without error,
\* the value it returns equals the value the backend stores under the key (in the
\* call's representation) at that moment, the step on which the call settles.
C31_SettlesWithStoredValue ==
    (/\ calls[1].pc # "settled" /\ calls'[1].pc = "settled"
     /\ calls'[1].op \in {"getAndCache", "getAndCacheBinary"}
     /\ calls'[1].outcome = "resolved")
        => LET n == StorageId(impl, calls'[1].key, calls'[1].opts.isBinary)
               returned == IF calls'[1].opts.returnBinaryMetadata
                           THEN calls'[1].result[1].data ELSE calls'[1].result
           IN  /\ n \in DOMAIN store'
               /\ EntryValue(impl, store'[n], calls'[1].opts.isBinary) = returned

C31_ReturnedValueIsStored == [][C31_SettlesWithStoredValue]_vars

\* C32 (first part): distinct (logical key, representation) pairs map to distinct
\* storage identifiers.
C32_DistinctIdentifiers ==
    \A k1, k2 \in keys : \A b1, b2 \in BOOLEAN :
        (<<k1, b1>> # <<k2, b2>>) => StorageId(impl, k1, b1) # StorageId(impl, k2, b2)

\* C32 (second part): no step of a put or getAndCache on one key changes the entries
\* of another key, so it cannot change what getAndCache returns for that key.
C32_OtherKeysUntouched ==
    (tasks' = tasks /\ calls'[1].op \in {"put", "getAndCache", "getAndCacheBinary"})
        => \A k2 \in keys \ {calls'[1].key} : \A b \in BOOLEAN :
               Lookup(store', StorageId(impl, k2, b)) = Lookup(store, StorageId(impl, k2, b))

\* C32: operations on one logical key never affect another logical key, keys that
\* contain dots such as 'a' and 'a.json' included.
C32_KeysIndependent == []C32_DistinctIdentifiers /\ [][C32_OtherKeysUntouched]_vars

====
